---- MODULE Spec2Model ----
(***************************************************************************)
(* Image ingestion and cleanup in the admin interface: the ImageUpload     *)
(* component as embedded in the Activities form, and the Gallery page.     *)
(* Strings are sequences of one-character strings, so that startsWith,     *)
(* includes and split are computed rather than assumed.                    *)
(***************************************************************************)
EXTENDS Integers, Sequences, FiniteSets, TLC

\* ---------------------------------------------------------------- bounds
MaxRuns == 2      \* asynchronous handler invocations started in one behaviour
MaxDim == 6       \* image widths, heights and maxSize values 1..MaxDim

\* --------------------------------------------------------------- strings
Empty == << >>

StartsWith(s, p) == Len(s) >= Len(p) /\ SubSeq(s, 1, Len(p)) = p

Includes(s, sub) ==
    \E i \in 1..(Len(s) - Len(sub) + 1) : SubSeq(s, i, i + Len(sub) - 1) = sub

\* s.split(sep) followed by taking the last part
LastPart(s, sep) ==
    LET idx == {i \in 1..Len(s) : s[i] = sep}
    IN  IF idx = {} THEN s
        ELSE LET last == CHOOSE i \in idx : \A j \in idx : j <= i
             IN  SubSeq(s, last + 1, Len(s))

RECURSIVE NumStr(_)
NumStr(n) ==
    LET d == <<"0", "1", "2", "3", "4", "5", "6", "7", "8", "9">>
    IN  IF n < 10 THEN <<d[n + 1]>> ELSE NumStr(n \div 10) \o <<d[(n % 10) + 1]>>

ImagePrefix == <<"i", "m", "a", "g", "e", "/">>

Marker == <<"/", "s", "t", "o", "r", "a", "g", "e", "/", "v", "1", "/",
            "o", "b", "j", "e", "c", "t", "/", "p", "u", "b", "l", "i", "c", "/",
            "u", "p", "l", "o", "a", "d", "s", "/">>

MaxFileSize == 10 * 1024 * 1024

\* the project URL that getPublicUrl prefixes (shortened)
SupabaseUrl == <<"h">>

PublicUrl(fileName) == SupabaseUrl \o Marker \o fileName

\* ----------------------------------------------------------------- files
PngType == ImagePrefix \o <<"p", "n", "g">>
JpegType == ImagePrefix \o <<"j", "p", "e", "g">>
TextType == <<"t", "e", "x", "t", "/", "p", "l", "a", "i", "n">>
OddType == <<"x", "-">> \o ImagePrefix \o <<"p", "n", "g">>

NoFile == [name |-> Empty, type |-> Empty, size |-> -1, decodable |-> FALSE]

Files ==
    { [name |-> <<"a", ".", "p", "n", "g">>, type |-> PngType,
       size |-> MaxFileSize, decodable |-> TRUE],
      [name |-> <<"b", ".", "j", "p", "g">>, type |-> JpegType,
       size |-> 1, decodable |-> FALSE],
      [name |-> <<"c", ".", "p", "n", "g">>, type |-> PngType,
       size |-> MaxFileSize + 1, decodable |-> TRUE],
      [name |-> <<"d", ".", "t", "x", "t">>, type |-> TextType,
       size |-> 5, decodable |-> FALSE],
      [name |-> <<"e", ".", "p", "n", "g">>, type |-> OddType,
       size |-> 7, decodable |-> TRUE] }

\* Math.random().toString(36).substring(2)
Tokens == { <<"p">> }

\* objects and URLs present before the session starts
Key0 == <<"p", "-", "0", ".", "p", "n", "g">>
Key1 == <<"1", "-", "a", ".", "p", "n", "g">>
ExternalUrl == <<"e", "/", "x", ".", "p", "n", "g">>
NearMissUrl == SupabaseUrl \o SubSeq(Marker, 1, Len(Marker) - 1)

Outcomes == {"ok", "error", "throw"}

\* ----------------------------------------------------------------- state
VARIABLES
    page,             \* the page of the admin interface that is mounted
    store,            \* object keys in the bucket 'uploads'
    activitiesTable,  \* rows of table 'activities'
    galleryTable,     \* rows of table 'gallery'
    nextId,           \* the id the next inserted row gets (one page is mounted,
                      \* so one table receives the inserts)
    activities,       \* Activities: the list last fetched
    formData,         \* Activities: the form state
    editingActivity,  \* Activities: id of the activity being edited, 0 if none
    dialogOpen,       \* Activities: the form dialog is open
    preview,          \* ImageUpload: preview
    uploading,        \* ImageUpload: uploading
    images,           \* Gallery: the list displayed
    uploadDialogOpen, \* Gallery: the upload dialog is open
    selectedFile,     \* Gallery: selectedFile (NoFile for null)
    previewUrl,       \* Gallery: previewUrl (Empty for null)
    galleryUploading, \* Gallery: uploading
    runs,             \* the asynchronous handler invocations in flight
    started,          \* how many invocations were started so far
    settled,          \* the invocation that settled in the last step, if any
    lastToast,        \* the message shown to the user by the last step, if any
    canvas            \* resizeImage: the image last loaded and the canvas sized for it

storeVars == <<store, activitiesTable, galleryTable, nextId>>
activitiesVars == <<activities, formData, editingActivity, dialogOpen>>
imageUploadVars == <<preview, uploading>>
galleryVars == <<images, uploadDialogOpen, selectedFile, previewUrl, galleryUploading>>
runVars == <<runs, started, settled>>
mainVars == <<page, storeVars, activitiesVars, imageUploadVars, galleryVars,
              runVars, lastToast>>
vars == <<mainVars, canvas>>

\* the form of a new activity; title stands for the fields other than
\* image_url, which the form treats alike
EmptyForm == [title |-> Empty, image_url |-> Empty]

\* the title of the activities present, which is also the title the user types
Title0 == <<"t">>
Titles == { Title0 }

\* no image was loaded by resizeImage yet
NoCanvas == [site |-> "none", naturalWidth |-> 0, naturalHeight |-> 0,
             maxSize |-> 0, width |-> 0, height |-> 0]

NewRun(kind, pc) ==
    [kind |-> kind, pc |-> pc, mounted |-> FALSE, id |-> 0, url |-> Empty,
     file |-> NoFile, key |-> Empty, snap |-> {}, form |-> EmptyForm,
     del |-> "none", up |-> "none", tbl |-> "none",
     toast |-> "none", onChange |-> << >>,
     calls |-> [remove |-> 0, upload |-> 0, insert |-> 0]]

RunIds == 1..Len(runs)
CanStart == started < MaxRuns

Init ==
    /\ page \in {"activities", "gallery"}
    /\ store = {Key0, Key1}
    /\ activitiesTable = { [id |-> 1, title |-> Title0, image_url |-> PublicUrl(Key0)],
                           [id |-> 2, title |-> Title0, image_url |-> ExternalUrl] }
    /\ galleryTable = { [id |-> 1, image |-> PublicUrl(Key1)],
                        [id |-> 2, image |-> NearMissUrl] }
    /\ activities = IF page = "activities" THEN activitiesTable ELSE {}
    /\ formData = EmptyForm
    /\ editingActivity = 0
    /\ dialogOpen = FALSE
    /\ preview = Empty
    /\ uploading = FALSE
    /\ images = IF page = "gallery" THEN galleryTable ELSE {}
    /\ uploadDialogOpen = FALSE
    /\ selectedFile = NoFile
    /\ previewUrl = Empty
    /\ galleryUploading = FALSE
    /\ nextId = 3
    /\ runs = << >>
    /\ started = 0
    /\ settled = NewRun("none", "done")
    /\ lastToast = "none"
    /\ canvas = NoCanvas

\* a state setter of the ImageUpload instance that started run r takes effect
\* only while that instance is still mounted
Mounted(r) == r.mounted

\* a step that shows no message
NoToast == lastToast' = "none"

\* a step in which no invocation settles
Forget == settled' = NewRun("none", "done")

\* what is recorded of a run that has settled: its closure is dead; mounted
\* tells whether its ImageUpload instance was still mounted when it settled
Dead(r) == [r EXCEPT !.form = EmptyForm, !.snap = {}]

\* a handler invocation begins and reaches its first pending call
Start(r) ==
    /\ runs' = Append(runs, r)
    /\ started' = started + 1
    /\ Forget

\* run i continues as r; once r has settled it leaves the runs in flight
Settle(i, r) ==
    /\ UNCHANGED started
    /\ IF r.pc = "done"
       THEN /\ runs' = SubSeq(runs, 1, i - 1) \o SubSeq(runs, i + 1, Len(runs))
            /\ settled' = Dead(r)
       ELSE /\ runs' = [runs EXCEPT ![i] = r]
            /\ Forget

\* two instants at which Date.now() is read
Timestamps == {1, 2}

\* ------------------------------------------------- ImageUpload component
\* the file names deleteOldImage hands to storage.remove (none: no call)
DeleteOldImage(imageUrl) ==
    IF imageUrl = Empty THEN {}
    ELSE IF Includes(imageUrl, Marker) THEN {LastPart(imageUrl, "/")}
    ELSE {}

\* ValidateFile without the size check
ValidateFileNoSize(file) ==
    IF ~StartsWith(file.type, ImagePrefix) THEN "Please select an image file"
    ELSE "ok"

\* the validation of handleFileSelect: the message shown, or "ok"
ValidateFile(file) ==
    IF ~StartsWith(file.type, ImagePrefix) THEN "Please select an image file"
    ELSE IF file.size > MaxFileSize THEN "File size must be less than 10MB"
    ELSE "ok"

\* the file name uploadImage builds
UploadFileName(token, now, file) ==
    token \o <<"-">> \o NumStr(now) \o <<".">> \o LastPart(file.name, ".")

\* UploadImageStart without the deletion of the old image
UploadImageStartNoDelete(file) ==
    /\ uploading' = TRUE
    /\ Start([NewRun("uploadImage", "resize")
                EXCEPT !.mounted = TRUE, !.file = file,
                       !.url = formData.image_url, !.form = formData])

\* the first part of uploadImage, up to its first pending call
UploadImageStart(file) ==
    LET value == formData.image_url
        names == IF value # Empty THEN DeleteOldImage(value) ELSE {}
        r == [NewRun("uploadImage", IF names # {} THEN "delete" ELSE "resize")
                EXCEPT !.mounted = TRUE, !.file = file, !.url = value,
                       !.form = formData,
                       !.del = IF names # {} THEN "pending" ELSE "none",
                       !.calls.remove = Cardinality(names)]
    IN  /\ uploading' = TRUE
        /\ Start(r)

\* the file chooser is rendered while preview is empty and enabled while
\* uploading is false
HandleFileSelect(file) ==
    /\ page = "activities" /\ dialogOpen
    /\ preview = Empty /\ ~uploading
    /\ IF ValidateFile(file) # "ok"
       THEN /\ lastToast' = ValidateFile(file)
            /\ Forget
            /\ UNCHANGED <<uploading, runs, started>>
       ELSE /\ CanStart
            /\ UploadImageStart(file)
            /\ NoToast
    /\ UNCHANGED <<page, canvas, storeVars, activitiesVars, preview,
                   galleryVars>>

\* UploadImageDeleteReturn with the exception of storage.remove reaching the
\* catch of uploadImage
UploadImageDeleteUncaught(i, outcome) ==
    /\ i \in RunIds
    /\ runs[i].kind = "uploadImage" /\ runs[i].pc = "delete"
    /\ store' = IF outcome = "ok" THEN store \ DeleteOldImage(runs[i].url) ELSE store
    /\ IF outcome = "throw"
       THEN /\ lastToast' = "Failed to upload image"
            /\ uploading' = IF Mounted(runs[i]) THEN FALSE ELSE uploading
            /\ Settle(i, [runs[i] EXCEPT !.del = outcome, !.pc = "done",
                                         !.toast = "error"])
       ELSE /\ Settle(i, [runs[i] EXCEPT !.del = outcome, !.pc = "resize"])
            /\ NoToast
            /\ UNCHANGED <<uploading>>
    /\ UNCHANGED <<page, canvas, activitiesTable, galleryTable, nextId, activitiesVars,
                   preview, galleryVars>>

\* storage.remove of deleteOldImage returns inside uploadImage: the result is
\* not inspected and an exception is caught
UploadImageDeleteReturn(i, outcome) ==
    /\ i \in RunIds
    /\ runs[i].kind = "uploadImage" /\ runs[i].pc = "delete"
    /\ store' = IF outcome = "ok" THEN store \ DeleteOldImage(runs[i].url) ELSE store
    /\ Settle(i, [runs[i] EXCEPT !.del = outcome, !.pc = "resize"])
    /\ NoToast
    /\ UNCHANGED <<page, canvas, activitiesTable, galleryTable, nextId, activitiesVars,
                   imageUploadVars, galleryVars>>

\* img.onload fires (only for bytes that decode), the blob is produced and
\* storage.upload is issued
UploadImageResized(i, token, now) ==
    /\ i \in RunIds
    /\ runs[i].kind = "uploadImage" /\ runs[i].pc = "resize"
    /\ runs[i].file.decodable
    /\ Settle(i, [runs[i] EXCEPT !.key = UploadFileName(token, now, runs[i].file),
                                 !.up = "pending", !.pc = "upload",
                                 !.calls.upload = @ + 1])
    /\ NoToast
    /\ UNCHANGED <<page, canvas, storeVars, activitiesVars, imageUploadVars,
                   galleryVars>>

\* the outcomes storage.upload can have for a key (upsert: false)
UploadOutcomes(key) == IF key \in store THEN {"error", "throw"} ELSE Outcomes

\* UploadError without the test of the returned error
UploadErrorUnchecked(outcome) == outcome = "throw"

\* if (uploadError) throw uploadError; a rejected call throws by itself
UploadError(outcome) == outcome # "ok"

\* storage.upload returns inside uploadImage; the message of the error toast
\* is error.message when the error has one

UploadImageUploadReturn(i, outcome) ==
    /\ i \in RunIds
    /\ runs[i].kind = "uploadImage" /\ runs[i].pc = "upload"
    /\ outcome \in UploadOutcomes(runs[i].key)
    /\ LET r == runs[i]
           publicUrl == PublicUrl(r.key)
       IN  IF ~UploadError(outcome)
           THEN /\ store' = store \cup {r.key}
                /\ preview' = IF Mounted(r) THEN publicUrl ELSE preview
                /\ formData' = [r.form EXCEPT !.image_url = publicUrl]
                /\ lastToast' = "Image uploaded successfully"
                /\ Settle(i, [r EXCEPT !.up = outcome, !.pc = "done",
                                       !.onChange = <<publicUrl>>,
                                       !.toast = "success"])
           ELSE /\ lastToast' = "Failed to upload image"
                /\ Settle(i, [r EXCEPT !.up = outcome, !.pc = "done",
                                       !.toast = "error"])
                /\ UNCHANGED <<store, preview, formData>>
    /\ uploading' = IF Mounted(runs[i]) THEN FALSE ELSE uploading
    /\ UNCHANGED <<page, canvas, activitiesTable, galleryTable, nextId, activities,
                   editingActivity, dialogOpen, galleryVars>>

\* the remove button is rendered while preview is non-empty and enabled while
\* uploading is false; removeImage up to its first pending call
RemoveImage ==
    /\ page = "activities" /\ dialogOpen
    /\ preview # Empty /\ ~uploading
    /\ CanStart
    /\ LET names == DeleteOldImage(preview)
           r == [NewRun("removeImage", "delete")
                   EXCEPT !.mounted = TRUE, !.url = preview, !.form = formData]
       IN  IF names # {}
           THEN /\ Start([r EXCEPT !.del = "pending", !.calls.remove = @ + 1])
                /\ UNCHANGED <<preview, formData>>
           ELSE /\ settled' = Dead([r EXCEPT !.pc = "done", !.onChange = <<Empty>>])
                /\ started' = started + 1
                /\ UNCHANGED runs
                /\ preview' = Empty
                /\ formData' = [formData EXCEPT !.image_url = Empty]
    /\ NoToast
    /\ UNCHANGED <<page, canvas, storeVars, activities, editingActivity, dialogOpen,
                   uploading, galleryVars>>

\* RemoveImageDeleteReturn with the exception of storage.remove leaving
\* removeImage
RemoveImageDeleteUncaught(i, outcome) ==
    /\ i \in RunIds
    /\ runs[i].kind = "removeImage" /\ runs[i].pc = "delete"
    /\ store' = IF outcome = "ok" THEN store \ DeleteOldImage(runs[i].url) ELSE store
    /\ IF outcome = "throw"
       THEN /\ Settle(i, [runs[i] EXCEPT !.del = outcome, !.pc = "done"])
            /\ UNCHANGED <<preview, formData>>
       ELSE /\ preview' = IF Mounted(runs[i]) THEN Empty ELSE preview
            /\ formData' = [runs[i].form EXCEPT !.image_url = Empty]
            /\ Settle(i, [runs[i] EXCEPT !.del = outcome, !.pc = "done",
                                         !.onChange = <<Empty>>])
    /\ NoToast
    /\ UNCHANGED <<page, canvas, activitiesTable, galleryTable, nextId, activities,
                   editingActivity, dialogOpen, uploading, galleryVars>>

\* storage.remove of deleteOldImage returns inside removeImage
RemoveImageDeleteReturn(i, outcome) ==
    /\ i \in RunIds
    /\ runs[i].kind = "removeImage" /\ runs[i].pc = "delete"
    /\ store' = IF outcome = "ok" THEN store \ DeleteOldImage(runs[i].url) ELSE store
    /\ preview' = IF Mounted(runs[i]) THEN Empty ELSE preview
    /\ formData' = [runs[i].form EXCEPT !.image_url = Empty]
    /\ Settle(i, [runs[i] EXCEPT !.del = outcome, !.pc = "done",
                                 !.onChange = <<Empty>>])
    /\ NoToast
    /\ UNCHANGED <<page, canvas, activitiesTable, galleryTable, nextId, activities,
                   editingActivity, dialogOpen, uploading, galleryVars>>

\* ------------------------------------------------------- Activities page
\* the dialog content, and with it ImageUpload, is mounted when the dialog
\* opens: useState(value || "") then takes the form's image_url
MountImageUpload(value) ==
    /\ preview' = value
    /\ uploading' = FALSE

\* the edit button of a listed activity
HandleEdit(activity) ==
    /\ page = "activities" /\ ~dialogOpen
    /\ activity \in activities
    /\ editingActivity' = activity.id
    /\ formData' = [title |-> activity.title, image_url |-> activity.image_url]
    /\ dialogOpen' = TRUE
    /\ MountImageUpload(activity.image_url)
    /\ Forget
    /\ NoToast
    /\ UNCHANGED <<page, canvas, storeVars, activities, galleryVars,
                   runs, started>>

\* the Add Activity button: resetForm, and the dialog trigger opens the dialog
ResetForm ==
    /\ page = "activities" /\ ~dialogOpen
    /\ formData' = EmptyForm
    /\ editingActivity' = 0
    /\ dialogOpen' = TRUE
    /\ MountImageUpload(Empty)
    /\ Forget
    /\ NoToast
    /\ UNCHANGED <<page, canvas, storeVars, activities, galleryVars,
                   runs, started>>

\* typing in the title field: setFormData({ ...formData, title })
SetTitle(title) ==
    /\ page = "activities" /\ dialogOpen
    /\ formData.title # title
    /\ formData' = [formData EXCEPT !.title = title]
    /\ Forget
    /\ NoToast
    /\ UNCHANGED <<page, canvas, storeVars, activities, editingActivity, dialogOpen,
                   imageUploadVars, galleryVars, runs, started>>

\* the Cancel button of the form (or dismissing the dialog):
\* setDialogOpen(false), which unmounts the dialog content and ImageUpload
CancelDialog ==
    /\ page = "activities" /\ dialogOpen
    /\ dialogOpen' = FALSE
    /\ preview' = Empty
    /\ uploading' = FALSE
    /\ runs' = [j \in RunIds |-> [runs[j] EXCEPT !.mounted = FALSE]]
    /\ Forget
    /\ NoToast
    /\ UNCHANGED <<page, canvas, storeVars, activities, formData, editingActivity,
                   galleryVars, started>>

\* fetchData: the select returns the rows, or fails and the list is kept
FetchData(rows, fetched) == IF fetched THEN rows ELSE activities

\* the form's submit button; the title input is required
HandleSubmit ==
    /\ page = "activities" /\ dialogOpen
    /\ formData.title # Empty
    /\ CanStart
    /\ Start([NewRun("handleSubmit", "dbwrite")
                EXCEPT !.id = editingActivity, !.form = formData,
                       !.url = formData.image_url, !.tbl = "pending"])
    /\ NoToast
    /\ UNCHANGED <<page, canvas, storeVars, activitiesVars, imageUploadVars,
                   galleryVars>>

\* the rows after handleSubmit's update (of the activity being edited) or insert
SubmitRows(rows, id, form, newId) ==
    IF id # 0
    THEN {IF row.id = id
          THEN [id |-> id, title |-> form.title, image_url |-> form.image_url]
          ELSE row : row \in rows}
    ELSE rows \cup {[id |-> newId, title |-> form.title,
                     image_url |-> form.image_url]}

\* the table update or insert of handleSubmit returns; on success the dialog
\* is closed, which unmounts ImageUpload, the form is reset and the list fetched
HandleSubmitReturn(i, outcome, fetched) ==
    /\ i \in RunIds
    /\ runs[i].kind = "handleSubmit" /\ runs[i].pc = "dbwrite"
    /\ LET r == runs[i]
       IN  IF outcome # "ok"
           THEN /\ lastToast' = "An error occurred"
                /\ Settle(i, [r EXCEPT !.tbl = outcome, !.pc = "done",
                                       !.toast = "error"])
                /\ UNCHANGED <<activitiesTable, nextId, activitiesVars,
                               imageUploadVars>>
           ELSE /\ activitiesTable' = SubmitRows(activitiesTable, r.id, r.form, nextId)
                /\ nextId' = IF r.id # 0 THEN nextId ELSE nextId + 1
                /\ dialogOpen' = FALSE
                /\ editingActivity' = 0
                /\ formData' = EmptyForm
                /\ preview' = Empty
                /\ uploading' = FALSE
                /\ activities' = FetchData(activitiesTable', fetched)
                /\ lastToast' = IF ~fetched THEN "Failed to fetch data"
                                ELSE IF r.id # 0
                                     THEN "Activity updated successfully"
                                     ELSE "Activity created successfully"
                /\ runs' = [j \in 1..(Len(runs) - 1) |->
                              [(IF j < i THEN runs[j] ELSE runs[j + 1])
                                 EXCEPT !.mounted = FALSE]]
                /\ settled' = Dead([r EXCEPT !.tbl = outcome, !.pc = "done",
                                             !.toast = "success"])
                /\ UNCHANGED started
    /\ UNCHANGED <<page, canvas, store, galleryTable, galleryVars>>

\* the file names deleteImageFromStorage hands to storage.remove
DeleteImageFromStorage(imageUrl) ==
    IF imageUrl = Empty THEN {}
    ELSE IF Includes(imageUrl, Marker) THEN {LastPart(imageUrl, "/")}
    ELSE {}

\* handleDelete (confirmed by the user) up to the pending table delete
HandleDelete(id) ==
    /\ page = "activities" /\ ~dialogOpen
    /\ CanStart
    /\ \E act \in activities :
         /\ act.id = id
         /\ Start([NewRun("handleDelete", "dbdelete")
                     EXCEPT !.id = id, !.url = act.image_url, !.tbl = "pending"])
    /\ NoToast
    /\ UNCHANGED <<page, canvas, storeVars, activitiesVars, imageUploadVars,
                   galleryVars>>

\* TableError without the test of the returned error
TableErrorUnchecked(outcome) == outcome = "throw"

\* if (error) throw error; a rejected call throws by itself
TableError(outcome) == outcome # "ok"

\* the table delete of handleDelete returns
HandleDeleteTableReturn(i, outcome, fetched) ==
    /\ i \in RunIds
    /\ runs[i].kind = "handleDelete" /\ runs[i].pc = "dbdelete"
    /\ LET r == runs[i]
           names == IF r.url # Empty THEN DeleteImageFromStorage(r.url) ELSE {}
       IN  IF TableError(outcome)
           THEN /\ lastToast' = "Failed to delete activity"
                /\ Settle(i, [r EXCEPT !.tbl = outcome, !.pc = "done",
                                       !.toast = "error"])
                /\ UNCHANGED <<activitiesTable, activities>>
           ELSE /\ activitiesTable' = {row \in activitiesTable : row.id # r.id}
                /\ IF names # {}
                   THEN /\ Settle(i, [r EXCEPT !.tbl = outcome, !.pc = "delete",
                                               !.del = "pending",
                                               !.calls.remove = @ + 1])
                        /\ NoToast
                        /\ UNCHANGED <<activities>>
                   ELSE /\ lastToast' = IF fetched THEN "Activity deleted successfully"
                                        ELSE "Failed to fetch data"
                        /\ activities' = FetchData(activitiesTable', fetched)
                        /\ Settle(i, [r EXCEPT !.tbl = outcome, !.pc = "done",
                                               !.toast = "success"])
    /\ UNCHANGED <<page, canvas, store, galleryTable, nextId, formData, editingActivity,
                   dialogOpen, imageUploadVars, galleryVars>>

\* storage.remove of deleteImageFromStorage returns inside handleDelete
HandleDeleteStorageReturn(i, outcome, fetched) ==
    /\ i \in RunIds
    /\ runs[i].kind = "handleDelete" /\ runs[i].pc = "delete"
    /\ store' = IF outcome = "ok"
                THEN store \ DeleteImageFromStorage(runs[i].url) ELSE store
    /\ lastToast' = IF fetched THEN "Activity deleted successfully"
                    ELSE "Failed to fetch data"
    /\ activities' = FetchData(activitiesTable, fetched)
    /\ Settle(i, [runs[i] EXCEPT !.del = outcome, !.pc = "done",
                                 !.toast = "success"])
    /\ UNCHANGED <<page, canvas, activitiesTable, galleryTable, nextId, formData,
                   editingActivity, dialogOpen, imageUploadVars, galleryVars>>

\* ---------------------------------------------------------- Gallery page
\* the Add Image button and dismissing the dialog: setUploadDialogOpen
SetUploadDialogOpen(open) ==
    /\ page = "gallery" /\ uploadDialogOpen # open
    /\ uploadDialogOpen' = open
    /\ Forget
    /\ NoToast
    /\ UNCHANGED <<page, canvas, storeVars, activitiesVars, imageUploadVars, images,
                   selectedFile, previewUrl, galleryUploading, runs, started>>

\* the validation of Gallery's handleFileSelect: the message shown, or "ok"
GalleryValidateFile(file) ==
    IF ~StartsWith(file.type, ImagePrefix) THEN "Please select an image file"
    ELSE IF file.size > MaxFileSize THEN "File size must be less than 10MB"
    ELSE "ok"

\* URL.createObjectURL(file)
CreateObjectURL(file) == <<"b", "l", "o", "b", ":">> \o file.name

\* the selection area is rendered while previewUrl is null
GalleryHandleFileSelect(file) ==
    /\ page = "gallery" /\ uploadDialogOpen
    /\ previewUrl = Empty
    /\ IF GalleryValidateFile(file) # "ok"
       THEN /\ lastToast' = GalleryValidateFile(file)
            /\ UNCHANGED <<selectedFile, previewUrl>>
       ELSE /\ selectedFile' = file
            /\ previewUrl' = CreateObjectURL(file)
            /\ NoToast
    /\ Forget
    /\ UNCHANGED <<page, canvas, storeVars, activitiesVars, imageUploadVars, images,
                   uploadDialogOpen, galleryUploading, runs, started>>

\* handleCancelUpload: the state it sets
HandleCancelUpload ==
    /\ selectedFile' = NoFile
    /\ previewUrl' = Empty

\* the X button over the preview: rendered while previewUrl is set, never disabled
ClickRemovePreview ==
    /\ page = "gallery" /\ uploadDialogOpen
    /\ previewUrl # Empty
    /\ HandleCancelUpload
    /\ Forget
    /\ NoToast
    /\ UNCHANGED <<page, canvas, storeVars, activitiesVars, imageUploadVars, images,
                   uploadDialogOpen, galleryUploading, runs, started>>

\* the Cancel button: rendered while previewUrl is set, disabled while uploading
ClickCancel ==
    /\ page = "gallery" /\ uploadDialogOpen
    /\ previewUrl # Empty /\ ~galleryUploading
    /\ HandleCancelUpload
    /\ Forget
    /\ NoToast
    /\ UNCHANGED <<page, canvas, storeVars, activitiesVars, imageUploadVars, images,
                   uploadDialogOpen, galleryUploading, runs, started>>

\* the Upload button: rendered while previewUrl is set, disabled while
\* uploading; handleConfirmUpload up to the pending resize
HandleConfirmUpload ==
    /\ page = "gallery" /\ uploadDialogOpen
    /\ previewUrl # Empty /\ ~galleryUploading
    /\ selectedFile # NoFile
    /\ CanStart
    /\ galleryUploading' = TRUE
    /\ Start([NewRun("handleConfirmUpload", "resize") EXCEPT !.file = selectedFile])
    /\ NoToast
    /\ UNCHANGED <<page, canvas, storeVars, activitiesVars, imageUploadVars, images,
                   uploadDialogOpen, selectedFile, previewUrl>>

\* the file name handleConfirmUpload builds
GalleryFileName(now, file) == NumStr(now) \o <<"-">> \o file.name

\* img.onload fires (only for bytes that decode) and storage.upload is issued
ConfirmUploadResized(i, now) ==
    /\ i \in RunIds
    /\ runs[i].kind = "handleConfirmUpload" /\ runs[i].pc = "resize"
    /\ runs[i].file.decodable
    /\ Settle(i, [runs[i] EXCEPT !.key = GalleryFileName(now, runs[i].file),
                                 !.up = "pending", !.pc = "upload",
                                 !.calls.upload = @ + 1])
    /\ NoToast
    /\ UNCHANGED <<page, canvas, storeVars, activitiesVars, imageUploadVars,
                   galleryVars>>

\* if (uploadError) throw uploadError; a rejected call throws by itself
GalleryUploadError(outcome) == outcome # "ok"

\* storage.upload returns inside handleConfirmUpload
ConfirmUploadUploadReturn(i, outcome) ==
    /\ i \in RunIds
    /\ runs[i].kind = "handleConfirmUpload" /\ runs[i].pc = "upload"
    /\ outcome \in UploadOutcomes(runs[i].key)
    /\ IF ~GalleryUploadError(outcome)
       THEN /\ store' = store \cup {runs[i].key}
            /\ Settle(i, [runs[i] EXCEPT !.up = outcome, !.pc = "insert",
                                         !.tbl = "pending",
                                         !.calls.insert = @ + 1])
            /\ NoToast
            /\ UNCHANGED <<galleryUploading>>
       ELSE /\ lastToast' = "Failed to upload image"
            /\ galleryUploading' = FALSE
            /\ Settle(i, [runs[i] EXCEPT !.up = outcome, !.pc = "done",
                                         !.toast = "error"])
            /\ UNCHANGED store
    /\ UNCHANGED <<page, canvas, activitiesTable, galleryTable, nextId, activitiesVars,
                   imageUploadVars, images, uploadDialogOpen, selectedFile,
                   previewUrl>>

\* fetchImages: the select returns the rows, or fails and the list is kept
FetchImages(rows, fetched) == IF fetched THEN rows ELSE images

\* the table insert returns inside handleConfirmUpload
ConfirmUploadInsertReturn(i, outcome, fetched) ==
    /\ i \in RunIds
    /\ runs[i].kind = "handleConfirmUpload" /\ runs[i].pc = "insert"
    /\ IF outcome = "ok"
       THEN /\ galleryTable' = galleryTable \cup
                  {[id |-> nextId, image |-> PublicUrl(runs[i].key)]}
            /\ nextId' = nextId + 1
            /\ lastToast' = IF fetched THEN "Image uploaded successfully"
                            ELSE "Failed to fetch images"
            /\ HandleCancelUpload
            /\ uploadDialogOpen' = FALSE
            /\ images' = FetchImages(galleryTable', fetched)
            /\ Settle(i, [runs[i] EXCEPT !.tbl = outcome, !.pc = "done",
                                         !.toast = "success"])
       ELSE /\ lastToast' = "Failed to upload image"
            /\ Settle(i, [runs[i] EXCEPT !.tbl = outcome, !.pc = "done",
                                         !.toast = "error"])
            /\ UNCHANGED <<galleryTable, nextId, selectedFile, previewUrl,
                           uploadDialogOpen, images>>
    /\ galleryUploading' = FALSE
    /\ UNCHANGED <<page, canvas, store, activitiesTable, activitiesVars,
                   imageUploadVars>>

\* DeleteImageNames without the test for the storage path
DeleteImageNamesUnguarded(imageUrl) == {LastPart(imageUrl, "/")}

\* the file names handleDeleteImage hands to storage.remove
DeleteImageNames(imageUrl) ==
    IF Includes(imageUrl, Marker) THEN {LastPart(imageUrl, "/")} ELSE {}

\* the delete button of a displayed image: handleDeleteImage up to the
\* pending table delete
HandleDeleteImage(img) ==
    /\ page = "gallery" /\ ~uploadDialogOpen
    /\ img \in images
    /\ CanStart
    /\ Start([NewRun("handleDeleteImage", "dbdelete")
                EXCEPT !.id = img.id, !.url = img.image, !.snap = images,
                       !.tbl = "pending"])
    /\ NoToast
    /\ UNCHANGED <<page, canvas, storeVars, activitiesVars, imageUploadVars,
                   galleryVars>>

\* the table delete of handleDeleteImage returns
DeleteImageTableReturn(i, outcome) ==
    /\ i \in RunIds
    /\ runs[i].kind = "handleDeleteImage" /\ runs[i].pc = "dbdelete"
    /\ LET r == runs[i]
       IN  IF TableError(outcome)
           THEN /\ lastToast' = "Failed to delete image"
                /\ Settle(i, [r EXCEPT !.tbl = outcome, !.pc = "done",
                                       !.toast = "error"])
                /\ UNCHANGED <<galleryTable, nextId, images>>
           ELSE /\ galleryTable' = {row \in galleryTable : row.id # r.id}
                /\ IF DeleteImageNames(r.url) # {}
                   THEN /\ Settle(i, [r EXCEPT !.tbl = outcome, !.pc = "delete",
                                               !.del = "pending",
                                               !.calls.remove = @ + 1])
                        /\ NoToast
                        /\ UNCHANGED <<images>>
                   ELSE /\ lastToast' = "Image deleted successfully"
                        /\ images' = {im \in r.snap : im.id # r.id}
                        /\ Settle(i, [r EXCEPT !.tbl = outcome, !.pc = "done",
                                               !.toast = "success"])
    /\ UNCHANGED <<page, canvas, store, activitiesTable, nextId, activitiesVars,
                   imageUploadVars, uploadDialogOpen, selectedFile, previewUrl,
                   galleryUploading>>

\* storage.remove returns inside handleDeleteImage: an exception reaches the
\* catch of the handler
DeleteImageStorageReturn(i, outcome) ==
    /\ i \in RunIds
    /\ runs[i].kind = "handleDeleteImage" /\ runs[i].pc = "delete"
    /\ LET r == runs[i]
       IN  IF outcome = "throw"
           THEN /\ lastToast' = "Failed to delete image"
                /\ Settle(i, [r EXCEPT !.del = outcome, !.pc = "done",
                                       !.toast = "error"])
                /\ UNCHANGED <<store, images>>
           ELSE /\ store' = IF outcome = "ok"
                            THEN store \ DeleteImageNames(r.url) ELSE store
                /\ lastToast' = "Image deleted successfully"
                /\ images' = {im \in r.snap : im.id # r.id}
                /\ Settle(i, [r EXCEPT !.del = outcome, !.pc = "done",
                                       !.toast = "success"])
    /\ UNCHANGED <<page, canvas, activitiesTable, galleryTable, nextId, activitiesVars,
                   imageUploadVars, uploadDialogOpen, selectedFile, previewUrl,
                   galleryUploading>>

\* --------------------------------------------------------- specification
\* a pending call returns, or a decodable image finishes loading
Return(i) ==
    \/ \E o \in Outcomes : UploadImageDeleteReturn(i, o)
    \/ \E t \in Tokens, now \in Timestamps : UploadImageResized(i, t, now)
    \/ \E o \in Outcomes : UploadImageUploadReturn(i, o)
    \/ \E o \in Outcomes : RemoveImageDeleteReturn(i, o)
    \/ \E o \in Outcomes, f \in BOOLEAN : HandleSubmitReturn(i, o, f)
    \/ \E o \in Outcomes, f \in BOOLEAN : HandleDeleteTableReturn(i, o, f)
    \/ \E o \in Outcomes, f \in BOOLEAN : HandleDeleteStorageReturn(i, o, f)
    \/ \E now \in Timestamps : ConfirmUploadResized(i, now)
    \/ \E o \in Outcomes : ConfirmUploadUploadReturn(i, o)
    \/ \E o \in Outcomes, f \in BOOLEAN : ConfirmUploadInsertReturn(i, o, f)
    \/ \E o \in Outcomes : DeleteImageTableReturn(i, o)
    \/ \E o \in Outcomes : DeleteImageStorageReturn(i, o)

Next ==
    \/ \E f \in Files : HandleFileSelect(f)
    \/ RemoveImage
    \/ \E a \in activities : HandleEdit(a)
    \/ ResetForm
    \/ \E t \in Titles : SetTitle(t)
    \/ CancelDialog
    \/ HandleSubmit
    \/ \E a \in activities : HandleDelete(a.id)
    \/ \E b \in BOOLEAN : SetUploadDialogOpen(b)
    \/ \E f \in Files : GalleryHandleFileSelect(f)
    \/ ClickCancel
    \/ ClickRemovePreview
    \/ HandleConfirmUpload
    \/ \E im \in images : HandleDeleteImage(im)
    \/ \E i \in 1..MaxRuns : Return(i)

Spec == Init /\ [][Next]_vars

\* every call to the store or a table eventually returns
FairSpec == Spec /\ \A i \in 1..MaxRuns : WF_vars(Return(i))

\* ---------------------------------------------------------- resizeImage
\* maxSize: number = 1080
DefaultMaxSize == 1080

\* canvas.width = x: the attribute is an unsigned long, so the quotient
\* num / den computed in floating point is truncated
CanvasSize(num, den) == num \div den

\* ResizeImage that scales every image to maxSize
ResizeImageAlways(width, height, maxSize) ==
    IF width > height
    THEN [width |-> maxSize, height |-> CanvasSize(height * maxSize, width)]
    ELSE [width |-> CanvasSize(width * maxSize, height), height |-> maxSize]

\* ResizeImage that sets both edges to maxSize
ResizeImageSquash(width, height, maxSize) ==
    IF width > height
    THEN IF width > maxSize
         THEN [width |-> maxSize, height |-> maxSize]
         ELSE [width |-> width, height |-> height]
    ELSE IF height > maxSize
         THEN [width |-> maxSize, height |-> maxSize]
         ELSE [width |-> width, height |-> height]

\* ImageUpload.resizeImage: the dimensions given to the canvas
ResizeImage(width, height, maxSize) ==
    IF width > height
    THEN IF width > maxSize
         THEN [width |-> maxSize, height |-> CanvasSize(height * maxSize, width)]
         ELSE [width |-> width, height |-> height]
    ELSE IF height > maxSize
         THEN [width |-> CanvasSize(width * maxSize, height), height |-> maxSize]
         ELSE [width |-> width, height |-> height]

\* GalleryResizeImage that limits the width only
GalleryResizeImageWidthOnly(width, height, maxSize) ==
    IF width > maxSize
    THEN [width |-> maxSize, height |-> CanvasSize(height * maxSize, width)]
    ELSE [width |-> width, height |-> height]

\* Gallery.resizeImage: the dimensions given to the canvas
GalleryResizeImage(width, height, maxSize) ==
    LET newWidth == IF width > height
                    THEN IF width > maxSize THEN maxSize ELSE width
                    ELSE IF height > maxSize
                         THEN CanvasSize(width * maxSize, height) ELSE width
        newHeight == IF width > height
                     THEN IF width > maxSize
                          THEN CanvasSize(height * maxSize, width) ELSE height
                     ELSE IF height > maxSize THEN maxSize ELSE height
    IN  [width |-> newWidth, height |-> newHeight]

\* the widths, heights and maxSize values tried
Dims == (1..MaxDim) \cup {500, 1000, 2000}
MaxSizes == (1..MaxDim) \cup {DefaultMaxSize}

\* img.onload of ImageUpload.resizeImage for an image of width x height
ResizeImageOnload(width, height, maxSize) ==
    /\ canvas' = [site |-> "ImageUpload", naturalWidth |-> width,
                  naturalHeight |-> height, maxSize |-> maxSize,
                  width |-> ResizeImage(width, height, maxSize).width,
                  height |-> ResizeImage(width, height, maxSize).height]
    /\ UNCHANGED mainVars

\* img.onload of Gallery.resizeImage for an image of width x height
GalleryResizeImageOnload(width, height, maxSize) ==
    /\ canvas' = [site |-> "Gallery", naturalWidth |-> width,
                  naturalHeight |-> height, maxSize |-> maxSize,
                  width |-> GalleryResizeImage(width, height, maxSize).width,
                  height |-> GalleryResizeImage(width, height, maxSize).height]
    /\ UNCHANGED mainVars

ResizeNext ==
    \/ \E w \in Dims, h \in Dims, m \in MaxSizes : ResizeImageOnload(w, h, m)
    \/ \E w \in Dims, h \in Dims, m \in MaxSizes : GalleryResizeImageOnload(w, h, m)

\* resizeImage applied to every image and maxSize of the bounded sets
ResizeSpec == Init /\ [][ResizeNext]_vars

\* ----------------------------------------------------------------- claims
Ingestion == {"uploadImage", "handleConfirmUpload"}

\* the runs in flight and the run that settled in the last step
Known == {runs[i] : i \in RunIds} \cup {settled}

\* a step in which a run settles
Settles == Len(runs') < Len(runs) \/ (started' > started /\ Len(runs') = Len(runs))

Accepted(file) == StartsWith(file.type, ImagePrefix) /\ file.size <= 10485760

\* C1: a file that is not an image or is larger than 10,485,760 bytes never
\* reaches a store or table call: no ingestion run ever carries such a file, no
\* such file is kept as the gallery selection, and the step that rejects it
\* starts no run and changes neither the store, the tables nor a selection.
C1_RejectedNeverReachesStore ==
    /\ [](/\ \A r \in Known : r.kind \in Ingestion => Accepted(r.file)
          /\ selectedFile # NoFile => Accepted(selectedFile))
    /\ [][\A f \in Files :
            (~Accepted(f) /\ (HandleFileSelect(f) \/ GalleryHandleFileSelect(f)))
            => UNCHANGED <<storeVars, runs, started, selectedFile, previewUrl,
                           formData, preview>>]_vars

C1_Witness ==
    /\ lastToast = "File size must be less than 10MB"
    /\ started > 0

\* C2: when storage.upload fails, by a returned error or an exception, the run
\* settles with an error toast and commits nothing: no onChange, the preview
\* and the form unchanged, no gallery row inserted, the in-progress flag reset.
C2_UploadErrorCommitsNothing ==
    [][(Settles /\ settled'.kind \in Ingestion /\ settled'.up \in {"error", "throw"})
       => /\ settled'.toast = "error"
          /\ lastToast' = "Failed to upload image"
          /\ settled'.onChange = << >>
          /\ settled'.calls.insert = 0
          /\ UNCHANGED <<formData, preview, galleryTable, store>>
          /\ (settled'.kind = "uploadImage" /\ settled'.mounted => ~uploading')
          /\ (settled'.kind = "handleConfirmUpload" => ~galleryUploading')]_vars

C2_Witness ==
    /\ settled.kind \in Ingestion
    /\ settled.up \in {"error", "throw"}

\* C3: in uploadImage a failed deletion of the old image, by a returned error
\* or an exception, shows nothing to the user and does not end the run: the run
\* goes on to the resize and the upload is attempted before the run settles.
C3_DeleteFailureNeverAborts ==
    /\ \A i \in RunIds :
         (runs[i].kind = "uploadImage" /\ runs[i].del \in {"error", "throw"})
         => runs[i].pc \in {"resize", "upload"} /\ runs[i].toast = "none"
    /\ (settled.kind = "uploadImage" /\ settled.del \in {"error", "throw"})
       => settled.calls.upload = 1

C3_Witness ==
    /\ settled.kind = "uploadImage"
    /\ settled.del \in {"error", "throw"}
    /\ settled.up = "ok"

\* C4: at each of the three deletion sites storage.remove is called only for a
\* URL that contains '/storage/v1/object/public/uploads/'; for the empty
\* string no site calls it.
C4_DeleteOnlyWithMarker ==
    /\ \A r \in Known : r.calls.remove > 0 => Includes(r.url, Marker)
    /\ DeleteOldImage(Empty) = {}
    /\ DeleteImageFromStorage(Empty) = {}
    /\ DeleteImageNames(Empty) = {}

C4_Witness ==
    /\ settled.kind \in {"removeImage", "handleDelete", "handleDeleteImage"}
    /\ settled.url # Empty
    /\ ~Includes(settled.url, Marker)
    /\ settled.tbl \in {"none", "ok"}

\* C5: an ingestion run that succeeded made exactly one upload call, and
\* exactly one storage.remove call when the prior reference was non-empty
\* (none when it was empty).
C5_OneDeleteOneUpload ==
    (settled.kind \in Ingestion /\ settled.toast = "success")
    => /\ settled.calls.upload = 1
       /\ settled.calls.remove = IF settled.url # Empty THEN 1 ELSE 0

C5_Witness ==
    /\ settled.kind = "uploadImage"
    /\ settled.toast = "success"
    /\ settled.url # Empty

\* C6: when removeImage settles the link is cleared whatever storage.remove
\* did: onChange was called with the empty string, the form's image_url is
\* empty and the preview of its instance is empty; for a URL without the
\* storage path storage.remove is not called.
C6_RemoveAlwaysClears ==
    [][(Settles /\ settled'.kind = "removeImage")
       => /\ settled'.onChange = <<Empty>>
          /\ formData'.image_url = Empty
          /\ (settled'.mounted => preview' = Empty)
          /\ (~Includes(settled'.url, Marker) => settled'.calls.remove = 0)]_vars

C6_Witness ==
    /\ settled.kind = "removeImage"
    /\ settled.del \in {"error", "throw"}
    /\ formData.image_url = Empty

C6_WitnessSkipped ==
    /\ settled.kind = "removeImage"
    /\ settled.calls.remove = 0
    /\ formData.image_url = Empty

\* C7: the in-progress flag is set while an ingestion run is in flight, and
\* every ingestion run eventually settles, so that eventually no ingestion run
\* is in flight.
C7_EveryRunSettles ==
    /\ [](\A i \in RunIds :
            /\ (runs[i].kind = "uploadImage" /\ runs[i].mounted) => uploading
            /\ runs[i].kind = "handleConfirmUpload" => galleryUploading)
    /\ ((\E i \in RunIds : runs[i].kind \in Ingestion)
        ~> (\A i \in RunIds : runs[i].kind \notin Ingestion))

\* C8: a run whose file cannot be decoded has no side effect: it attempts no
\* upload, changes no link and does not delete the object of the prior reference.
C8_DecodeFailureNoSideEffects ==
    \A r \in Known :
        (r.kind \in Ingestion /\ ~r.file.decodable)
        => r.calls.upload = 0 /\ r.onChange = << >> /\ r.del # "ok"

\* C9: while handleConfirmUpload is in flight the selection it started from is
\* still the selection and the preview is still shown.
C9_NoCancelInFlight ==
    \A i \in RunIds :
        runs[i].kind = "handleConfirmUpload"
        => selectedFile = runs[i].file /\ previewUrl # Empty

\* C10: at most one ingestion run of the form's image slot, and at most one of
\* the gallery dialog, is in flight.
C10_OneRunPerSlot ==
    /\ Cardinality({i \in RunIds : runs[i].kind = "uploadImage"}) <= 1
    /\ Cardinality({i \in RunIds : runs[i].kind = "handleConfirmUpload"}) <= 1

Max(a, b) == IF a >= b THEN a ELSE b
Min(a, b) == IF a <= b THEN a ELSE b
Abs(x) == IF x >= 0 THEN x ELSE -x

\* C11: when the longer edge of the image is at most maxSize, the canvas of
\* either resizeImage gets the image's own width and height.
C11_SmallImageUnchanged ==
    (canvas.site # "none"
     /\ Max(canvas.naturalWidth, canvas.naturalHeight) <= canvas.maxSize)
    => /\ canvas.width = canvas.naturalWidth
       /\ canvas.height = canvas.naturalHeight

C11_Witness ==
    /\ canvas.site = "Gallery"
    /\ canvas.naturalWidth = 500 /\ canvas.naturalHeight = 500
    /\ canvas.maxSize = 1080
    /\ canvas.width = 500 /\ canvas.height = 500

\* C12: when the longer edge of the image exceeds maxSize, the canvas has
\* integer dimensions, its longer edge is maxSize, and its shorter edge is
\* within one pixel of shorter * maxSize / longer.
C12_LargeImageScaled ==
    LET longer == Max(canvas.naturalWidth, canvas.naturalHeight)
        shorter == Min(canvas.naturalWidth, canvas.naturalHeight)
        landscape == canvas.naturalWidth > canvas.naturalHeight
        outLonger == IF landscape THEN canvas.width ELSE canvas.height
        outShorter == IF landscape THEN canvas.height ELSE canvas.width
    IN  (canvas.site # "none" /\ longer > canvas.maxSize)
        => /\ canvas.width \in Nat /\ canvas.height \in Nat
           /\ outLonger = canvas.maxSize
           /\ Max(canvas.width, canvas.height) = canvas.maxSize
           /\ Abs(outShorter * longer - shorter * canvas.maxSize) <= longer

C12_Witness ==
    /\ canvas.site = "ImageUpload"
    /\ canvas.naturalWidth = 2000 /\ canvas.naturalHeight = 1000
    /\ canvas.maxSize = 1080
    /\ canvas.width = 1080 /\ canvas.height = 540

C12_WitnessPortrait ==
    /\ canvas.naturalWidth = 2 /\ canvas.naturalHeight = 5
    /\ canvas.maxSize = 3
    /\ canvas.width = 1 /\ canvas.height = 3

C12_WitnessSquare ==
    /\ canvas.naturalWidth = 2000 /\ canvas.naturalHeight = 2000
    /\ canvas.width = 1080 /\ canvas.height = 1080

\* C19: for the image and maxSize last given to either resizeImage, the two
\* implementations compute the same width and the same height.
C19_ResizeEquivalent ==
    canvas.site # "none"
    => /\ ResizeImage(canvas.naturalWidth, canvas.naturalHeight, canvas.maxSize)
          = GalleryResizeImage(canvas.naturalWidth, canvas.naturalHeight,
                               canvas.maxSize)
       /\ canvas.width = ResizeImage(canvas.naturalWidth, canvas.naturalHeight,
                                     canvas.maxSize).width
       /\ canvas.height = GalleryResizeImage(canvas.naturalWidth,
                                             canvas.naturalHeight,
                                             canvas.maxSize).height

C19_Witness ==
    /\ canvas.site = "Gallery"
    /\ canvas.naturalWidth = 3 /\ canvas.naturalHeight = 5
    /\ canvas.maxSize = 4
    /\ canvas.width = 2 /\ canvas.height = 4

EndsWith(s, suf) ==
    Len(s) >= Len(suf) /\ SubSeq(s, Len(s) - Len(suf) + 1, Len(s)) = suf

JpegSuffixes == { <<".", "j", "p", "g">>, <<".", "j", "p", "e", "g">> }

\* C13: the object key of every upload ends in a JPEG suffix (.jpg or .jpeg),
\* whatever the name of the file selected.
C13_KeyHasJpegSuffix ==
    \A r \in Known :
        (r.kind \in Ingestion /\ r.calls.upload > 0)
        => \E suf \in JpegSuffixes : EndsWith(r.key, suf)

RecordDeletion == {"handleDelete", "handleDeleteImage"}

\* C14: once the row was deleted, handleDelete and handleDeleteImage report
\* success whatever storage.remove did: a run that is past its table delete
\* never settles with an error toast.
C14_CleanupFailureNotSurfaced ==
    (settled.kind \in RecordDeletion /\ settled.tbl = "ok")
    => settled.toast = "success"

\* C18: on record deletion storage.remove is called only after the table
\* delete succeeded; when the table delete fails the run settles with an error
\* toast and no store call, and that step changes neither the store, the
\* tables nor the list displayed by the gallery.
C18_StoreDeleteAfterRowDelete ==
    /\ [](\A r \in Known :
            r.kind \in RecordDeletion
            => /\ r.calls.remove > 0 => r.tbl = "ok"
               /\ (r.pc = "done" /\ r.tbl # "ok")
                  => r.toast = "error" /\ r.calls.remove = 0 /\ r.del = "none")
    /\ [][(Settles /\ settled'.kind \in RecordDeletion /\ settled'.tbl # "ok")
          => /\ UNCHANGED <<store, activitiesTable, galleryTable, images, activities>>
             /\ lastToast' \in {"Failed to delete activity",
                                "Failed to delete image"}]_vars

C18_Witness ==
    /\ settled.kind = "handleDeleteImage"
    /\ settled.tbl = "error"
    /\ settled.id = 1
    /\ PublicUrl(Key1) \in {row.image : row \in galleryTable}
    /\ Key1 \in store

C18_WitnessActivities ==
    /\ settled.kind = "handleDelete"
    /\ settled.tbl \in {"error", "throw"}
    /\ Includes(settled.url, Marker)

\* C15: when uploadImage or removeImage settles in the activity form, the
\* fields of formData other than image_url keep the value they had just before.
C15_OnlyImageUrlChanges ==
    [][(Settles /\ settled'.kind \in {"uploadImage", "removeImage"})
       => formData'.title = formData.title]_vars

\* C16: when no handler is in flight and the form is closed, every row of
\* the activities table whose image_url is a URL of the bucket names an object
\* that is in the store.
C16_NoDanglingReference ==
    (runs = << >> /\ ~dialogOpen)
    => \A row \in activitiesTable :
         Includes(row.image_url, Marker) => LastPart(row.image_url, "/") \in store

\* C17: when handleConfirmUpload settles after its upload succeeded, the
\* uploaded object is in the store if and only if a gallery row with its
\* public URL exists.
C17_NoOrphanAfterInsertFailure ==
    (settled.kind = "handleConfirmUpload" /\ settled.up = "ok")
    => (settled.key \in store
        <=> PublicUrl(settled.key) \in {row.image : row \in galleryTable})

====
